---- MODULE Spec2Model ----
(***************************************************************************)
(* The browser pool, the page pool and the resolver of api_solver.py       *)
(* (PagePool, BrowserPool, TurnstileAPIServer._solve_turnstile) as an      *)
(* asyncio program: every coroutine runs without interruption from one     *)
(* suspension point (an await that really suspends: a contended lock, a    *)
(* sleep, a browser/page operation) to the next.  A step of the model is   *)
(* one such run.  The code between two suspension points is executed by    *)
(* Run, statement by statement, on a record S holding the whole state.     *)
(***************************************************************************)
EXTENDS Integers, Sequences, FiniteSets, TLC

(* ------------------------------ bounds -------------------------------- *)
\* concurrent coroutines (requests of the server, clients of the pools)
NumProcs == 2
\* largest max_browsers a BrowserPool is constructed with
MaxBrowsers == 2
\* largest max_size a PagePool is given
MaxPoolSize == 2

(* ------------------------- program constants -------------------------- *)
\* PagePool.min_size
min_size == 1
\* PagePool.max_wait_time, in seconds
max_wait_time == 30
\* _solve_turnstile's attempt budget
max_attempts == 10

Procs == 1..NumProcs
NoBrowser == 0
NoPage == <<0, 0>>
\* a browser and a page object no pool ever created
ForeignBrowser == MaxBrowsers + 1
ForeignPage == <<0, 1>>
NoExc == ""

VARIABLES
    mode,                \* "server": procs run _solve_turnstile; "browsers", "pages": procs call that pool directly; "async", "sync": a standalone solver is called
    phase,               \* "constructed" | "serving" | "failed"; in cleanup: "closing" | "stopping" | "stopped" | "cleanup_raised"
    max_browsers,        \* BrowserPool.max_browsers
    available_browsers,  \* BrowserPool.available_browsers (deque)
    in_use_browsers,     \* BrowserPool.in_use_browsers (set)
    browser_lock,        \* BrowserPool._lock
    max_size,            \* PagePool.max_size
    page_pools,          \* TurnstileAPIServer.page_pools: the browsers that have a PagePool
    available_pages,     \* PagePool.available_pages (deque), per pool
    in_use_pages,        \* PagePool.in_use_pages (set), per pool
    page_lock,           \* PagePool._lock, per pool
    pages_created,       \* pages context.new_page() has returned, per pool
    closed_pages,        \* pages page.close() has closed
    cleanup_failed,      \* history: the pages whose last _cleanup_page had an await that raised
    context_cookies,     \* per browser context: the requests whose cookies it holds
    pc,                  \* where each coroutine is
    ra,                  \* the label a pool operation returns to
    rv,                  \* the value a pool operation returned
    ex,                  \* the exception in flight ("" for none)
    browser,             \* _solve_turnstile's browser / the browser a client holds
    page,                \* _solve_turnstile's page / the page a client holds
    arg,                 \* the handle passed to return_browser / return_page
    elapsed,             \* seconds since the acquire in progress began (time.time() - start_time)
    waited,              \* history: the acquire in progress has slept ("slept"), also beyond max_wait_time ("overdue")
    attempts,            \* _solve_turnstile's attempts
    url,                 \* the url argument of the call: "url", or "None" when it is missing
    invisible,           \* the invisible argument of a solver's solve
    polls,               \* history: the eval_on_selector reads of the response field that returned
    clicks,              \* history: the page.click calls that returned
    reads,               \* history: what the response field read, poll by poll, and the final read
    pools_built,         \* history: the PagePool objects constructed for each browser
    cancelled,           \* a CancelledError is on its way out of the request's coroutine
    closing,             \* BrowserPool.cleanup: the browsers its loop has still to close
    closed_browsers,     \* the browsers that have been closed
    result,              \* the TurnstileAPIResult returned
    pending,             \* the return value waiting for the finally block to end
    raised,              \* history: the exceptions raised into _solve_turnstile
    events,              \* history: the release calls of a request, in order
    last,                \* history: a client's last completed pool operation, its argument and outcome
    misuse,              \* history: a client has released a handle it did not hold
    pre,                 \* history: the pool counts when the request began (of a request that ran alone)
    post,                \* history: the pool counts when the request ended (of a request that ran alone)
    overlap              \* history: another request was in flight during this one

vars == <<mode, phase, max_browsers, available_browsers, in_use_browsers,
          browser_lock, max_size, page_pools, available_pages, in_use_pages,
          page_lock, pages_created, closed_pages, cleanup_failed, context_cookies,
          pc, ra, rv, ex, browser,
          page, arg, elapsed, waited, attempts, url, invisible, polls, clicks,
          reads, pools_built, cancelled, closing, closed_browsers, result,
          pending, raised,
          events, last, misuse, pre, post, overlap>>

\* the whole state as one record, and back
St ==
    [mode |-> mode, phase |-> phase, max_browsers |-> max_browsers,
     available_browsers |-> available_browsers,
     in_use_browsers |-> in_use_browsers, browser_lock |-> browser_lock,
     max_size |-> max_size, page_pools |-> page_pools,
     available_pages |-> available_pages, in_use_pages |-> in_use_pages,
     page_lock |-> page_lock, pages_created |-> pages_created,
     closed_pages |-> closed_pages, cleanup_failed |-> cleanup_failed,
     context_cookies |-> context_cookies, pc |-> pc, ra |-> ra, rv |-> rv, ex |-> ex,
     browser |-> browser, page |-> page, arg |-> arg, elapsed |-> elapsed,
     waited |-> waited,
     attempts |-> attempts, url |-> url, invisible |-> invisible,
     polls |-> polls, clicks |-> clicks, reads |-> reads,
     pools_built |-> pools_built,
     cancelled |-> cancelled,
     closing |-> closing,
     closed_browsers |-> closed_browsers,
     result |-> result, pending |-> pending,
     raised |-> raised, events |-> events, last |-> last,
     misuse |-> misuse, pre |-> pre,
     post |-> post, overlap |-> overlap]

Set(S) ==
    /\ mode' = S.mode
    /\ phase' = S.phase
    /\ max_browsers' = S.max_browsers
    /\ available_browsers' = S.available_browsers
    /\ in_use_browsers' = S.in_use_browsers
    /\ browser_lock' = S.browser_lock
    /\ max_size' = S.max_size
    /\ page_pools' = S.page_pools
    /\ available_pages' = S.available_pages
    /\ in_use_pages' = S.in_use_pages
    /\ page_lock' = S.page_lock
    /\ pages_created' = S.pages_created
    /\ closed_pages' = S.closed_pages
    /\ cleanup_failed' = S.cleanup_failed
    /\ context_cookies' = S.context_cookies
    /\ pc' = S.pc
    /\ ra' = S.ra
    /\ rv' = S.rv
    /\ ex' = S.ex
    /\ browser' = S.browser
    /\ page' = S.page
    /\ arg' = S.arg
    /\ elapsed' = S.elapsed
    /\ waited' = S.waited
    /\ attempts' = S.attempts
    /\ url' = S.url
    /\ invisible' = S.invisible
    /\ polls' = S.polls
    /\ clicks' = S.clicks
    /\ reads' = S.reads
    /\ pools_built' = S.pools_built
    /\ cancelled' = S.cancelled
    /\ closing' = S.closing
    /\ closed_browsers' = S.closed_browsers
    /\ result' = S.result
    /\ pending' = S.pending
    /\ raised' = S.raised
    /\ events' = S.events
    /\ last' = S.last
    /\ misuse' = S.misuse
    /\ pre' = S.pre
    /\ post' = S.post
    /\ overlap' = S.overlap

(* --------------------------- small helpers ----------------------------- *)
Range(s) == {s[i] : i \in 1..Len(s)}

RECURSIVE UpTo(_)
\* the sequence <<1, ..., n>>
UpTo(n) == IF n = 0 THEN <<>> ELSE Append(UpTo(n - 1), n)

NoHandle == [b |-> NoBrowser, p |-> NoPage]
NoArg == [op |-> "none", b |-> NoBrowser, p |-> NoPage, n |-> 0]
\* a TurnstileAPIResult: result, elapsed_time_seconds, status, error
NoResult == [status |-> "none", result |-> "None", elapsed |-> "None",
             error |-> "None"]
NoLast == [op |-> "none", b |-> NoBrowser, p |-> NoPage, n |-> 0,
           ex |-> NoExc, waited |-> "no"]
NoPre == [ab |-> 0, ib |-> 0, ap |-> 0, ip |-> 0, made |-> 0]
NoPost == [ab |-> 0, ib |-> 0, ap |-> 0, ip |-> 0, made |-> 0,
           released |-> FALSE]
FreeLock == [holder |-> 0, waiters |-> <<>>]

\* the standalone PagePool the harness' clients use is filed under this key
StandalonePool == 1

\* the PagePool a coroutine works on: page_pools[browser] (line 264)
PoolOf(S, c) == IF S.mode = "server" THEN S.browser[c] ELSE StandalonePool

(* ------------------------------ asyncio.Lock --------------------------- *)
\* Lock.acquire() takes the lock without suspending iff it is unlocked and
\* nobody is queued for it; otherwise the caller queues (FIFO) and suspends.
LockFree(L) == L.holder = 0 /\ L.waiters = <<>>
LockTake(L, c) == [L EXCEPT !.holder = c]
LockQueue(L, c) == [L EXCEPT !.waiters = Append(@, c)]
\* Lock.release(): unlocked; the first waiter is woken and takes the lock when
\* it next runs (LockGrant)
LockRelease(L) == [L EXCEPT !.holder = 0]

\* a pool operation returns val (or raises e) to its caller
Return(S, c, val, e) ==
    [S EXCEPT !.pc[c] = S.ra[c], !.rv[c] = val, !.ex[c] = e]

\* the timeout test with the comparison turned round
TimedOut_reversed(S, c) == S.elapsed[c] < max_wait_time

\* time.time() - start_time > self.max_wait_time
TimedOut(S, c) == S.elapsed[c] > max_wait_time

\* an acquire goes to sleep at label (asyncio.sleep of its wait loop)
Sleep(S, c, label) ==
    [S EXCEPT !.pc[c] = label,
              !.waited[c] = IF S.elapsed[c] > max_wait_time THEN "overdue"
                            ELSE "slept"]

\* a released handle put at the left end of the deque (appendleft)
PutBack_left(q, h) == <<h>> \o q

\* deque.append of a released handle (lines 136 and 186): the right end, and
\* popleft takes from the left
PutBack(q, h) == Append(q, h)

(* ------------------------------ BrowserPool ---------------------------- *)
\* BrowserPool.initialize: max_browsers browsers are launched into
\* available_browsers
BrowserPool_initialize(S) ==
    [S EXCEPT !.available_browsers = UpTo(S.max_browsers)]

\* get_browser reading available_browsers[0] in place of popleft(): the
\* browser stays in available_browsers
get_browser_no_pop(S, c) ==
    CASE S.pc[c] = "gb_enter" ->
           IF LockFree(S.browser_lock)
           THEN [S EXCEPT !.browser_lock = LockTake(@, c), !.pc[c] = "gb_loop"]
           ELSE [S EXCEPT !.browser_lock = LockQueue(@, c),
                          !.pc[c] = "gb_lockwait"]
      [] S.pc[c] = "gb_loop" ->
           IF S.available_browsers = <<>>
           THEN Sleep(S, c, "gb_sleep")
           ELSE LET b == Head(S.available_browsers)
                    T == [S EXCEPT !.in_use_browsers = @ \cup {b},
                                   !.browser_lock = LockRelease(@)]
                IN  Return(T, c, [NoHandle EXCEPT !.b = b], NoExc)

\* BrowserPool.get_browser.  The while loop sleeps inside "async with
\* self._lock": a caller that finds no browser keeps the lock while it sleeps.
get_browser(S, c) ==
    CASE S.pc[c] = "gb_enter" ->
           IF LockFree(S.browser_lock)
           THEN [S EXCEPT !.browser_lock = LockTake(@, c), !.pc[c] = "gb_loop"]
           ELSE [S EXCEPT !.browser_lock = LockQueue(@, c),
                          !.pc[c] = "gb_lockwait"]
      [] S.pc[c] = "gb_loop" ->
           IF S.available_browsers = <<>>
           THEN Sleep(S, c, "gb_sleep")
           ELSE LET b == Head(S.available_browsers)
                    T == [S EXCEPT !.available_browsers = Tail(@),
                                   !.in_use_browsers = @ \cup {b},
                                   !.browser_lock = LockRelease(@)]
                IN  Return(T, c, [NoHandle EXCEPT !.b = b], NoExc)

\* return_browser with set.discard in place of set.remove: the browser is
\* appended whether or not it was checked out
return_browser_discard(S, c) ==
    CASE S.pc[c] = "rb_enter" ->
           IF LockFree(S.browser_lock)
           THEN [S EXCEPT !.browser_lock = LockTake(@, c), !.pc[c] = "rb_body"]
           ELSE [S EXCEPT !.browser_lock = LockQueue(@, c),
                          !.pc[c] = "rb_lockwait"]
      [] S.pc[c] = "rb_body" ->
           LET b == S.arg[c].b IN
           Return([S EXCEPT !.in_use_browsers = @ \ {b},
                            !.available_browsers = Append(@, b),
                            !.browser_lock = LockRelease(@)],
                  c, NoHandle, NoExc)

\* BrowserPool.return_browser: set.remove raises KeyError for a browser that
\* is not in in_use_browsers
return_browser(S, c) ==
    CASE S.pc[c] = "rb_enter" ->
           IF LockFree(S.browser_lock)
           THEN [S EXCEPT !.browser_lock = LockTake(@, c), !.pc[c] = "rb_body"]
           ELSE [S EXCEPT !.browser_lock = LockQueue(@, c),
                          !.pc[c] = "rb_lockwait"]
      [] S.pc[c] = "rb_body" ->
           LET b == S.arg[c].b IN
           IF b \notin S.in_use_browsers
           THEN Return([S EXCEPT !.browser_lock = LockRelease(@)],
                       c, NoHandle, "KeyError")
           ELSE Return([S EXCEPT !.in_use_browsers = @ \ {b},
                                 !.available_browsers = PutBack(@, b),
                                 !.browser_lock = LockRelease(@)],
                       c, NoHandle, NoExc)

\* the orders in which a set can be iterated
Listings(set) ==
    {q \in [1..Cardinality(set) -> set] : Range(q) = set}

\* BrowserPool.cleanup is called (line 190): the list of the browsers to
\* close is built, in_use_browsers in the order in_use lists the set
BrowserPool_cleanup(S, in_use) ==
    [S EXCEPT !.phase = "closing",
              !.closing = S.available_browsers \o in_use]

\* "await browser.close()" of cleanup's loop has ended (line 191); an
\* exception of close leaves cleanup
BrowserPool_cleanup_close(S, ok) ==
    IF ok
    THEN [S EXCEPT !.closed_browsers = @ \cup {Head(S.closing)},
                   !.closing = Tail(@),
                   !.phase = IF Tail(S.closing) = <<>> THEN "stopping" ELSE @]
    ELSE [S EXCEPT !.phase = "cleanup_raised"]

\* "await self.playwright.stop()" has ended (lines 192-193)
BrowserPool_cleanup_stop(S) == [S EXCEPT !.phase = "stopped"]

(* ------------------------------- PagePool ------------------------------ *)
\* PagePool.__init__ for the pool of browser k, registered in page_pools
PagePool_init(S, k) ==
    [S EXCEPT !.page_pools = @ \cup {k},
              !.available_pages[k] = <<>>,
              !.in_use_pages[k] = {},
              !.page_lock[k] = FreeLock]

\* context.new_page() of pool k returned a page
NewPage(S, k) == <<k, S.pages_created[k] + 1>>

\* PagePool.initialize, one round of its loop: the new page is appended to
\* available_pages
PagePool_initialize(S, k) ==
    [S EXCEPT !.available_pages[k] = Append(@, NewPage(S, k)),
              !.pages_created[k] = @ + 1]

\* the capacity test with <= in place of <
HasRoom_off_by_one(S, k) == Cardinality(S.in_use_pages[k]) <= S.max_size

\* len(self.in_use_pages) < self.max_size
HasRoom(S, k) == Cardinality(S.in_use_pages[k]) < S.max_size

\* return_page without the membership test
IsInUse_unchecked(S, k, p) == TRUE

\* page in self.in_use_pages
IsInUse(S, k, p) == p \in S.in_use_pages[k]

\* get_page reading the first available page without popleft: the page is
\* issued and stays in available_pages
get_page_peek(S, c) ==
    LET k == PoolOf(S, c) IN
    CASE S.pc[c] = "gp_start" ->
           [S EXCEPT !.elapsed[c] = 0, !.pc[c] = "gp_enter"]
      [] S.pc[c] = "gp_enter" ->
           IF LockFree(S.page_lock[k])
           THEN [S EXCEPT !.page_lock[k] = LockTake(@, c), !.pc[c] = "gp_body"]
           ELSE [S EXCEPT !.page_lock[k] = LockQueue(@, c),
                          !.pc[c] = "gp_lockwait"]
      [] S.pc[c] = "gp_body" ->
           IF S.available_pages[k] # <<>>
           THEN LET p == Head(S.available_pages[k])
                    T == [S EXCEPT !.in_use_pages[k] = @ \cup {p},
                                   !.page_lock[k] = LockRelease(@)]
                IN  Return(T, c, [NoHandle EXCEPT !.p = p], NoExc)
           ELSE IF HasRoom(S, k)
           THEN [S EXCEPT !.pc[c] = "gp_new_page"]
           ELSE LET T == [S EXCEPT !.page_lock[k] = LockRelease(@)] IN
                IF TimedOut(T, c)
                THEN Return(T, c, NoHandle, "TimeoutError")
                ELSE Sleep(T, c, "gp_sleep")

\* PagePool.get_page up to its next suspension.  new_page is awaited inside
\* the lock; the timeout check and the sleep are outside it.
get_page(S, c) ==
    LET k == PoolOf(S, c) IN
    CASE S.pc[c] = "gp_start" ->
           [S EXCEPT !.elapsed[c] = 0, !.pc[c] = "gp_enter"]
      [] S.pc[c] = "gp_enter" ->
           IF LockFree(S.page_lock[k])
           THEN [S EXCEPT !.page_lock[k] = LockTake(@, c), !.pc[c] = "gp_body"]
           ELSE [S EXCEPT !.page_lock[k] = LockQueue(@, c),
                          !.pc[c] = "gp_lockwait"]
      [] S.pc[c] = "gp_body" ->
           IF S.available_pages[k] # <<>>
           THEN LET p == Head(S.available_pages[k])
                    T == [S EXCEPT !.available_pages[k] = Tail(@),
                                   !.in_use_pages[k] = @ \cup {p},
                                   !.page_lock[k] = LockRelease(@)]
                IN  Return(T, c, [NoHandle EXCEPT !.p = p], NoExc)
           ELSE IF HasRoom(S, k)
           THEN [S EXCEPT !.pc[c] = "gp_new_page"]
           ELSE LET T == [S EXCEPT !.page_lock[k] = LockRelease(@)] IN
                IF TimedOut(T, c)
                THEN Return(T, c, NoHandle, "TimeoutError")
                ELSE Sleep(T, c, "gp_sleep")

\* get_page_new_page without self.in_use_pages.add(page)
get_page_new_page_no_add(S, c, ok) ==
    LET k == PoolOf(S, c) IN
    IF ok
    THEN LET p == NewPage(S, k)
             T == [S EXCEPT !.pages_created[k] = @ + 1,
                            !.page_lock[k] = LockRelease(@)]
         IN  Return(T, c, [NoHandle EXCEPT !.p = p], NoExc)
    ELSE Return([S EXCEPT !.page_lock[k] = LockRelease(@)],
                c, NoHandle, "new_page")

\* get_page_new_page putting the new page into available_pages as well
get_page_new_page_pooled(S, c, ok) ==
    LET k == PoolOf(S, c) IN
    IF ok
    THEN LET p == NewPage(S, k)
             T == [S EXCEPT !.pages_created[k] = @ + 1,
                            !.available_pages[k] = Append(@, p),
                            !.in_use_pages[k] = @ \cup {p},
                            !.page_lock[k] = LockRelease(@)]
         IN  Return(T, c, [NoHandle EXCEPT !.p = p], NoExc)
    ELSE Return([S EXCEPT !.page_lock[k] = LockRelease(@)],
                c, NoHandle, "new_page")

\* get_page after "await self.context.new_page()" (line 117) has ended
get_page_new_page(S, c, ok) ==
    LET k == PoolOf(S, c) IN
    IF ok
    THEN LET p == NewPage(S, k)
             T == [S EXCEPT !.pages_created[k] = @ + 1,
                            !.in_use_pages[k] = @ \cup {p},
                            !.page_lock[k] = LockRelease(@)]
         IN  Return(T, c, [NoHandle EXCEPT !.p = p], NoExc)
    ELSE Return([S EXCEPT !.page_lock[k] = LockRelease(@)],
                c, NoHandle, "new_page")

\* PagePool._cleanup_page after one of its awaits has ended.  A failure of
\* goto leaves the outer try (the other steps are skipped); a failure of a
\* clearing step is passed over.  Nothing is raised to return_page.
cleanup_page(S, c, ok) ==
    LET p == S.arg[c].p
        T == IF ok THEN S ELSE [S EXCEPT !.cleanup_failed = @ \cup {p}]
    IN
    CASE S.pc[c] = "cl_goto" ->
           [T EXCEPT !.pc[c] = IF ok THEN "cl_local" ELSE "rp_pool"]
      [] S.pc[c] = "cl_local" -> [T EXCEPT !.pc[c] = "cl_session"]
      [] S.pc[c] = "cl_session" -> [T EXCEPT !.pc[c] = "cl_cookies"]
      [] S.pc[c] = "cl_cookies" ->
           [T EXCEPT !.context_cookies[PoolOf(S, c)] = IF ok THEN {} ELSE @,
                     !.pc[c] = "rp_pool"]

\* the test of return_page against min_size: a page is pooled only while
\* fewer than min_size pages are available
Poolable_min_size(S, k) == Len(S.available_pages[k]) < min_size

\* "if len(self.available_pages) < self.max_size" (line 135): the only test
\* of return_page; min_size is not read
Poolable(S, k) == Len(S.available_pages[k]) < S.max_size

\* PagePool.return_page up to its next suspension.  The page leaves
\* in_use_pages before the cleanup is awaited, all inside the lock.
return_page(S, c) ==
    LET k == PoolOf(S, c)
        p == S.arg[c].p
    IN
    CASE S.pc[c] = "rp_enter" ->
           IF LockFree(S.page_lock[k])
           THEN [S EXCEPT !.page_lock[k] = LockTake(@, c), !.pc[c] = "rp_body"]
           ELSE [S EXCEPT !.page_lock[k] = LockQueue(@, c),
                          !.pc[c] = "rp_lockwait"]
      [] S.pc[c] = "rp_body" ->
           IF IsInUse(S, k, p)
           THEN [S EXCEPT !.in_use_pages[k] = @ \ {p},
                          !.cleanup_failed = @ \ {p},
                          !.pc[c] = "cl_goto"]
           ELSE Return([S EXCEPT !.page_lock[k] = LockRelease(@)],
                       c, NoHandle, NoExc)
      [] S.pc[c] = "rp_pool" ->
           IF Poolable(S, k)
           THEN Return([S EXCEPT !.available_pages[k] = PutBack(@, p),
                                 !.page_lock[k] = LockRelease(@)],
                       c, NoHandle, NoExc)
           ELSE [S EXCEPT !.pc[c] = "rp_close"]

\* return_page after "await page.close()" has ended: line 139, and line 144
\* in the except branch when the first close raised
return_page_close(S, c, ok) ==
    LET k == PoolOf(S, c)
        p == S.arg[c].p
    IN
    IF ok
    THEN Return([S EXCEPT !.closed_pages = @ \cup {p},
                          !.page_lock[k] = LockRelease(@)],
                c, NoHandle, NoExc)
    ELSE IF S.pc[c] = "rp_close"
    THEN [S EXCEPT !.pc[c] = "rp_close2"]
    ELSE Return([S EXCEPT !.page_lock[k] = LockRelease(@)],
                c, NoHandle, NoExc)

(* ------------------------- clients of the pools ------------------------ *)
\* A client calls one operation of the pool under test at a time (mode says
\* which pool: the two pools share no state) and holds at most one handle.
\* It releases the handle it holds, once (n = 0) or twice in a row (n = 1,
\* then n = 2), or a handle the pool never issued.
EntryOf(op) ==
    CASE op = "get_browser" -> "gb_enter"
      [] op = "return_browser" -> "rb_enter"
      [] op = "get_page" -> "gp_start"
      [] op = "return_page" -> "rp_enter"

CreatedPages(S, k) == {<<k, i>> : i \in 1..S.pages_created[k]}

CanCall(S, c, a) ==
    /\ S.mode = (IF a.op \in {"get_browser", "return_browser"}
                 THEN "browsers" ELSE "pages")
    /\ a.n \in {0, 1}
    /\ CASE a.op = "get_browser" ->
              a.n = 0 /\ a.b = NoBrowser /\ a.p = NoPage
              /\ S.browser[c] = NoBrowser
         [] a.op = "get_page" ->
              a.n = 0 /\ a.b = NoBrowser /\ a.p = NoPage
              /\ S.page[c] = NoPage
         [] a.op = "return_browser" ->
              /\ a.p = NoPage
              /\ a.b # NoBrowser
              /\ a.b = S.browser[c] \/ (a.n = 0 /\ a.b = ForeignBrowser)
         [] a.op = "return_page" ->
              /\ a.b = NoBrowser
              /\ a.p # NoPage
              /\ a.p = S.page[c] \/ (a.n = 0 /\ a.p = ForeignPage)

client_call(S, c, a) ==
    [S EXCEPT !.arg[c] = a, !.ra[c] = "h_ret", !.elapsed[c] = 0,
              !.waited[c] = "no", !.last[c] = NoLast,
              !.misuse = @ \/ (a.op = "return_browser" /\ a.b # S.browser[c])
                           \/ (a.op = "return_page" /\ a.p # S.page[c]),
              !.pc[c] = EntryOf(a.op)]

\* the client takes the result of its call; after the first of two releases
\* it goes on to the second
client_return(S, c) ==
    LET a == S.arg[c]
        ok == S.ex[c] = NoExc
    IN
    [S EXCEPT
       !.browser[c] = IF a.op = "get_browser" /\ ok THEN S.rv[c].b
                      ELSE IF a.op = "return_browser" /\ a.b = @ THEN NoBrowser
                      ELSE @,
       !.page[c] = IF a.op = "get_page" /\ ok THEN S.rv[c].p
                   ELSE IF a.op = "return_page" /\ a.p = @ THEN NoPage
                   ELSE @,
       !.last[c] = IF a.n = 1 THEN NoLast
                   ELSE [op |-> a.op, b |-> a.b, p |-> a.p, n |-> a.n,
                         ex |-> S.ex[c], waited |-> S.waited[c]],
       !.waited[c] = "no",
       !.rv[c] = NoHandle,
       !.ex[c] = NoExc,
       !.ra[c] = "idle",
       !.elapsed[c] = 0,
       !.arg[c] = IF a.n = 1 THEN [a EXCEPT !.n = 2] ELSE NoArg,
       !.pc[c] = IF a.n = 1 THEN "h_again" ELSE "idle"]

\* the handle of the client's release is checked out
CheckedOut(S, a) ==
    IF a.op = "return_browser" THEN a.b \in S.in_use_browsers
    ELSE a.p \in S.in_use_pages[StandalonePool]

(* --------------------- TurnstileAPIServer._solve_turnstile ------------- *)
\* the pool counts a caller can observe, and the pages made so far
Sum(f) == LET RECURSIVE Add(_)
              Add(k) == IF k = 0 THEN 0 ELSE f[k] + Add(k - 1)
          IN  Add(MaxBrowsers)

Counts(S) ==
    [ab |-> Len(S.available_browsers),
     ib |-> Cardinality(S.in_use_browsers),
     ap |-> Sum([k \in 1..MaxBrowsers |-> Len(S.available_pages[k])]),
     ip |-> Sum([k \in 1..MaxBrowsers |-> Cardinality(S.in_use_pages[k])]),
     made |-> Sum(S.pages_created)]

\* a request is inside _solve_turnstile
Active(S, r) ==
    S.pc[r] \notin {"idle", "done", "propagated", "rejected", "cancelled"}

\* the try blocks with the inner try opened after the page checkout: the
\* construction of the PagePool and get_page are covered by no handler
HandlerOf_late_try(label) ==
    CASE label \in {"s_navigate", "s_eval", "s_click", "s_read"} -> "s_except"
      [] label \in {"s_got_browser", "s_page_returned", "s_browser_returned"} ->
           "s_outer_except"
      [] OTHER -> "propagated"

\* The try blocks of _solve_turnstile: the inner try (lines 259-333) covers
\* everything between the browser checkout and the finally block; the outer
\* try (lines 257-346) covers get_browser and the finally block.
HandlerOf(label) ==
    CASE label \in {"s_new_context", "pp_new_page", "s_got_page", "s_navigate",
                    "s_eval", "s_click", "s_read"} -> "s_except"
      [] label \in {"s_got_browser", "s_page_returned", "s_browser_returned"} ->
           "s_outer_except"
      [] OTHER -> "propagated"

\* an exception reaches _solve_turnstile at the label the request is at
Raise(S, r, cause) ==
    [S EXCEPT !.ex[r] = cause,
              !.raised[r] = @ \cup {cause},
              !.pc[r] = HandlerOf(S.pc[r])]

\* _solve_turnstile is called with the given url (lines 252-258): the clock
\* starts, page = None, and get_browser is called
solve_start(S, r, u) ==
    [S EXCEPT !.url[r] = u,
              !.pre = [o \in Procs |->
                         IF \E q \in Procs \ {r} : Active(S, q)
                         THEN (IF o = r \/ Active(S, o) THEN NoPre ELSE @[o])
                         ELSE (IF o = r THEN Counts(S) ELSE @[o])],
              !.overlap = [o \in Procs |->
                             IF o = r THEN \E q \in Procs \ {r} : Active(S, q)
                             ELSE IF Active(S, o) THEN TRUE ELSE @[o]],
              !.page[r] = NoPage,
              !.elapsed[r] = 0,
              !.ra[r] = "s_got_browser",
              !.pc[r] = "gb_enter"]

\* the browser of request r is back in available_browsers and its page is
\* not in in_use_pages
Released(S, r) ==
    /\ S.browser[r] \in Range(S.available_browsers)
    /\ S.browser[r] \notin S.in_use_browsers
    /\ \A k \in S.page_pools : S.page[r] \notin S.in_use_pages[k]

\* _solve_turnstile returns res to process_turnstile; its locals are gone
solve_return(S, r, res) ==
    [S EXCEPT !.result[r] = res,
              !.post[r] = IF S.overlap[r]
                          THEN [NoPost EXCEPT !.released = Released(S, r)]
                          ELSE [ab |-> Counts(S).ab, ib |-> Counts(S).ib,
                                ap |-> Counts(S).ap, ip |-> Counts(S).ip,
                                made |-> Counts(S).made,
                                released |-> Released(S, r)],
              !.pending[r] = NoResult,
              !.browser[r] = NoBrowser,
              !.page[r] = NoPage,
              !.attempts[r] = 0,
              !.url[r] = "url",
              !.polls[r] = 0,
              !.clicks[r] = 0,
              !.reads[r] = <<>>,
              !.elapsed[r] = 0,
              !.waited[r] = "no",
              !.rv[r] = NoHandle,
              !.ex[r] = NoExc,
              !.arg[r] = NoArg,
              !.ra[r] = "idle",
              !.pc[r] = "done"]

\* A CancelledError leaves _solve_turnstile: it is a BaseException, which
\* neither "except Exception" clause (lines 335 and 347) catches.  The
\* handles the request had are kept for the record.
solve_cancelled(S, r) ==
    [S EXCEPT !.cancelled[r] = FALSE,
              !.pending[r] = NoResult,
              !.attempts[r] = 0,
              !.url[r] = "url",
              !.polls[r] = 0,
              !.clicks[r] = 0,
              !.reads[r] = <<>>,
              !.elapsed[r] = 0,
              !.waited[r] = "no",
              !.rv[r] = NoHandle,
              !.ex[r] = NoExc,
              !.arg[r] = NoArg,
              !.ra[r] = "idle",
              !.pc[r] = "cancelled"]

\* Lock.acquire is cancelled: the waiter leaves the queue
LockLeave(L, c) == [L EXCEPT !.waiters = SelectSeq(@, LAMBDA w : w # c)]

\* Task.cancel() on the task of request r: a CancelledError is raised at the
\* await the request is suspended in.  "async with" releases a lock the
\* request holds.  Inside the inner try (lines 259-333) the finally block
\* runs next; inside get_browser or the finally block (lines 342-345) the
\* error leaves _solve_turnstile at once.  The bare "except:" around the
\* second page.close() of return_page (lines 143-146) swallows it.
solve_cancel(S, r) ==
    LET T == [S EXCEPT !.cancelled[r] = TRUE,
                       !.raised[r] = @ \cup {"CancelledError"}]
        k == PoolOf(S, r)
    IN
    CASE S.pc[r] = "gb_sleep" ->
           solve_cancelled([T EXCEPT !.browser_lock = LockRelease(@)], r)
      [] S.pc[r] \in {"gb_lockwait", "rb_lockwait"} ->
           solve_cancelled([T EXCEPT !.browser_lock = LockLeave(@, r)], r)
      [] S.pc[r] = "rp_lockwait" ->
           solve_cancelled([T EXCEPT !.page_lock[k] = LockLeave(@, r)], r)
      [] S.pc[r] \in {"cl_goto", "cl_local", "cl_session", "cl_cookies",
                      "rp_close"} ->
           solve_cancelled([T EXCEPT !.page_lock[k] = LockRelease(@)], r)
      [] S.pc[r] = "rp_close2" ->
           Return([T EXCEPT !.cancelled[r] = FALSE,
                            !.page_lock[k] = LockRelease(@)],
                  r, NoHandle, NoExc)
      [] S.pc[r] = "gp_lockwait" ->
           [T EXCEPT !.page_lock[k] = LockLeave(@, r), !.pc[r] = "s_finally"]
      [] S.pc[r] = "gp_new_page" ->
           [T EXCEPT !.page_lock[k] = LockRelease(@), !.pc[r] = "s_finally"]
      [] OTHER -> [T EXCEPT !.pc[r] = "s_finally"]

\* the release block without the return_page call: the browser alone is
\* returned
solve_finally_browser_only(S, r) ==
    CASE S.pc[r] = "s_finally" -> [S EXCEPT !.pc[r] = "s_return_browser"]
      [] S.pc[r] = "s_page_returned" ->
           [S EXCEPT !.pc[r] = "s_return_browser"]
      [] S.pc[r] = "s_return_browser" ->
           [S EXCEPT !.events[r] = Append(@, "return_browser"),
                     !.arg[r] = [NoArg EXCEPT !.op = "return_browser",
                                             !.b = S.browser[r]],
                     !.ra[r] = "s_browser_returned",
                     !.pc[r] = "rb_enter"]

\* the finally block of _solve_turnstile (lines 342-345): return_page when a
\* page was checked out, then return_browser
solve_finally(S, r) ==
    CASE S.pc[r] = "s_finally" ->
           IF S.page[r] # NoPage
           THEN [S EXCEPT !.arg[r] = [NoArg EXCEPT !.op = "return_page",
                                                   !.p = S.page[r]],
                          !.ra[r] = "s_page_returned",
                          !.pc[r] = "rp_enter"]
           ELSE [S EXCEPT !.pc[r] = "s_return_browser"]
      [] S.pc[r] = "s_page_returned" ->
           IF S.ex[r] # NoExc THEN Raise(S, r, S.ex[r])
           ELSE [S EXCEPT !.events[r] = Append(@, "return_page"),
                          !.pc[r] = "s_return_browser"]
      [] S.pc[r] = "s_return_browser" ->
           [S EXCEPT !.events[r] = Append(@, "return_browser"),
                     !.arg[r] = [NoArg EXCEPT !.op = "return_browser",
                                             !.b = S.browser[r]],
                     !.ra[r] = "s_browser_returned",
                     !.pc[r] = "rb_enter"]

\* the loop test letting one more attempt through
InBudget_inclusive(S, c) == S.attempts[c] <= max_attempts

\* while attempts < max_attempts (api_solver line 295, async_solver line 93,
\* sync_solver line 151)
InBudget(S, c) == S.attempts[c] < max_attempts

\* the lazy construction without its test: every request builds a PagePool
NeedsPagePool_always(S, b) == TRUE

\* "if browser not in self.page_pools" (line 260)
NeedsPagePool(S, b) == b \notin S.page_pools

\* _solve_turnstile between two suspension points
solve_turnstile(S, r) ==
    CASE S.pc[r] = "s_got_browser" ->
           \* line 258, then lines 260-261
           IF S.ex[r] # NoExc THEN Raise(S, r, S.ex[r])
           ELSE LET b == S.rv[r].b IN
                [S EXCEPT !.browser[r] = b,
                          !.rv[r] = NoHandle,
                          !.events[r] = Append(@, "get_browser"),
                          !.pc[r] = IF NeedsPagePool(S, b)
                                    THEN "s_new_context" ELSE "s_get_page"]
      [] S.pc[r] = "s_get_page" ->
           \* lines 264-265
           [S EXCEPT !.ra[r] = "s_got_page", !.pc[r] = "gp_start"]
      [] S.pc[r] = "s_got_page" ->
           \* line 265, then the code up to the first await of lines 271-289:
           \* url.split (line 272) and url.endswith (line 284) fail on None
           IF S.ex[r] # NoExc THEN Raise(S, r, S.ex[r])
           ELSE LET T == [S EXCEPT !.page[r] = S.rv[r].p,
                                   !.rv[r] = NoHandle,
                                   !.events[r] = Append(@, "get_page"),
                                   !.pc[r] = "s_navigate"]
                IN  IF S.url[r] = "None" THEN Raise(T, r, "AttributeError")
                    ELSE T
      [] S.pc[r] = "s_loop" ->
           \* lines 295 and 328-333
           IF InBudget(S, r)
           THEN [S EXCEPT !.pc[r] = "s_eval"]
           ELSE [S EXCEPT !.pending[r] =
                            [status |-> "failure", result |-> "None",
                             elapsed |-> "None",
                             error |-> "Max attempts reached without solution"],
                          !.pc[r] = "s_finally"]
      [] S.pc[r] = "s_except" ->
           \* lines 335-341
           [S EXCEPT !.pending[r] =
                       [status |-> "error", result |-> "None",
                        elapsed |-> "None", error |-> S.ex[r]],
                     !.ex[r] = NoExc,
                     !.pc[r] = "s_finally"]
      [] S.pc[r] = "s_browser_returned" ->
           \* line 346, and the pending return or the pending CancelledError
           IF S.ex[r] # NoExc THEN Raise(S, r, S.ex[r])
           ELSE IF S.cancelled[r] THEN solve_cancelled(S, r)
           ELSE solve_return(S, r, S.pending[r])
      [] S.pc[r] = "s_outer_except" ->
           \* lines 347-354
           solve_return(S, r, [status |-> "error", result |-> "None",
                               elapsed |-> "None", error |-> S.ex[r]])

\* "await browser.new_context()" has ended (line 261): the PagePool is
\* constructed and registered, and its initialize begins (line 262)
solve_new_context(S, r, ok) ==
    IF ok
    THEN [PagePool_init(S, S.browser[r]) EXCEPT
            !.pools_built[S.browser[r]] = @ + 1,
            !.pc[r] = IF min_size > 0 THEN "pp_new_page" ELSE "s_get_page"]
    ELSE Raise(S, r, "new_context")

\* "await self.context.new_page()" of PagePool.initialize has ended (line 101)
solve_initialize(S, r, ok) ==
    LET k == S.browser[r] IN
    IF ok
    THEN LET T == PagePool_initialize(S, k) IN
         [T EXCEPT !.pc[r] = IF Len(T.available_pages[k]) < min_size
                             THEN "pp_new_page" ELSE "s_get_page"]
    ELSE Raise(S, r, "new_page")

\* the cookies argument of request r: the first request carries cookies, the
\* others none (process_turnstile passes none, a direct caller may)
Cookies(r) == r = 1

\* solve_navigate with the navigation outside the inner try: a failure goes
\* to the outer handler, past the finally block
solve_navigate_outside_try(S, r, failed) ==
    IF failed = NoExc
    THEN [S EXCEPT !.attempts[r] = 0, !.pc[r] = "s_loop"]
    ELSE [Raise(S, r, failed) EXCEPT !.pc[r] = "s_outer_except"]

\* the awaits of lines 271-289 have ended: add_cookies (when the request
\* carries cookies), route, goto; failed names the one that raised ("" for
\* none)
solve_navigate(S, r, failed) ==
    LET T == IF Cookies(r) /\ failed # "add_cookies"
             THEN [S EXCEPT !.context_cookies[S.browser[r]] = @ \cup {r}]
             ELSE S
    IN
    IF failed = NoExc
    THEN [T EXCEPT !.attempts[r] = 0, !.pc[r] = "s_loop"]
    ELSE Raise(T, r, failed)

\* solve_eval taking a non-empty read for an empty one: the loop goes on
\* clicking and polling
solve_eval_keeps_polling(S, r, o) ==
    CASE o \in {"empty", "value"} ->
           [S EXCEPT !.polls[r] = @ + 1, !.reads[r] = Append(@, o),
                     !.pc[r] = "s_click"]
      [] OTHER -> Raise(S, r, o)

\* "await page.eval_on_selector(...)" has ended (lines 296-300)
solve_eval(S, r, o) ==
    CASE o = "empty" ->
           [S EXCEPT !.polls[r] = @ + 1, !.reads[r] = Append(@, o),
                     !.pc[r] = "s_click"]
      [] o = "value" ->
           [S EXCEPT !.polls[r] = @ + 1, !.reads[r] = Append(@, o),
                     !.pc[r] = "s_read"]
      [] OTHER -> Raise(S, r, o)

\* the awaits of lines 303-305 have ended (evaluate, click, sleep), then
\* line 306
solve_click(S, r, failed) ==
    IF failed = NoExc
    THEN [S EXCEPT !.clicks[r] = @ + 1, !.attempts[r] = @ + 1,
                   !.pc[r] = "s_loop"]
    ELSE Raise(S, r, failed)

\* solve_read without the two log calls that slice the value (lines 313-320):
\* a value of None would be returned in a success result
solve_read_unlogged(S, r, o) ==
    CASE o = "no_element" ->
           [S EXCEPT !.reads[r] = Append(@, o),
                     !.pending[r] =
                       [status |-> "failure", result |-> "None",
                        elapsed |-> "None",
                        error |-> "Max attempts reached without solution"],
                     !.pc[r] = "s_finally"]
      [] o \in {"token", "none"} ->
           [S EXCEPT !.reads[r] = Append(@, o),
                     !.pending[r] =
                       [status |-> "success",
                        result |-> IF o = "token" THEN "token" ELSE "None",
                        elapsed |-> "elapsed_time", error |-> "None"],
                     !.pc[r] = "s_finally"]
      [] OTHER -> Raise(S, r, o)

\* the awaits of lines 308-310 have ended (query_selector, get_attribute):
\* no element breaks out of the loop; a value of None fails at value[:45]
solve_read(S, r, o) ==
    CASE o = "no_element" ->
           [S EXCEPT !.reads[r] = Append(@, o),
                     !.pending[r] =
                       [status |-> "failure", result |-> "None",
                        elapsed |-> "None",
                        error |-> "Max attempts reached without solution"],
                     !.pc[r] = "s_finally"]
      [] o = "token" ->
           [S EXCEPT !.reads[r] = Append(@, o),
                     !.pending[r] =
                       [status |-> "success", result |-> "token",
                        elapsed |-> "elapsed_time", error |-> "None"],
                     !.pc[r] = "s_finally"]
      [] o = "none" -> Raise([S EXCEPT !.reads[r] = Append(@, o)], r, "TypeError")
      [] OTHER -> Raise(S, r, o)

(* --------- AsyncTurnstileSolver.solve and TurnstileSolver.solve -------- *)
\* The directly callable solvers (mode "async": async_solver.py, mode "sync":
\* sync_solver.py) launch a browser of their own in every call and share no
\* state between calls.  events records the launch and the close of that
\* browser.

\* solve is called with the given invisible argument
solver_start(S, c, inv) ==
    [S EXCEPT !.invisible[c] = inv, !.pc[c] = "v_launch"]

\* an exception raised inside the try block of solve (async lines 151-181,
\* sync lines 195-215) is on its way out through the finally block
solver_raise(S, c, cause) ==
    [S EXCEPT !.ex[c] = cause, !.raised[c] = @ \cup {cause},
              !.pc[c] = "v_close"]

\* the result solve builds from the value _get_turnstile_response returned
\* (async lines 155-177, sync lines 199-215)
solver_result(S, c, turnstile_value) ==
    [S EXCEPT !.pending[c] =
                IF turnstile_value \in {"None", ""}
                THEN [status |-> "failure", result |-> "None",
                      elapsed |-> "elapsed_time",
                      error |-> "Max attempts reached without token retrieval"]
                ELSE [status |-> "success", result |-> turnstile_value,
                      elapsed |-> "elapsed_time", error |-> "None"],
              !.pc[c] = "v_close"]

\* solve ends.  AsyncTurnstileSolver.solve turns an exception into an error
\* result (lines 193-201); TurnstileSolver.solve has no except clause: the
\* exception leaves solve.
solver_exit(S, c) ==
    LET T == [S EXCEPT !.pending[c] = NoResult, !.attempts[c] = 0,
                       !.polls[c] = 0, !.clicks[c] = 0, !.reads[c] = <<>>,
                       !.invisible[c] = FALSE, !.ex[c] = NoExc]
    IN
    IF S.ex[c] = NoExc
    THEN [T EXCEPT !.result[c] = S.pending[c], !.pc[c] = "returned"]
    ELSE IF S.mode = "async"
    THEN [T EXCEPT !.result[c] = [status |-> "error", result |-> "None",
                                  elapsed |-> "elapsed_time",
                                  error |-> S.ex[c]],
                   !.pc[c] = "returned"]
    ELSE [T EXCEPT !.pc[c] = "raised"]

\* the browser is launched: async lines 134-149 (async_playwright, launch,
\* new_context, add_cookies), inside the outer try and before the inner one;
\* sync lines 178-193, before the try
solver_launch(S, c, failed) ==
    LET T == IF failed = "launch" THEN S
             ELSE [S EXCEPT !.events[c] = Append(@, "launch")]
    IN
    IF failed = NoExc
    THEN [T EXCEPT !.pc[c] = "v_setup"]
    ELSE [T EXCEPT !.ex[c] = failed, !.raised[c] = @ \cup {failed},
                   !.pc[c] = "v_exit"]

\* _setup_page has ended (new_page, route, goto)
solver_setup(S, c, failed) ==
    IF failed = NoExc
    THEN [S EXCEPT !.attempts[c] = 0, !.pc[c] = "v_loop"]
    ELSE solver_raise(S, c, failed)

\* _get_turnstile_response: the loop test, and "return None" after the loop
\* (async lines 93 and 114, sync lines 151 and 171)
solver_loop(S, c) ==
    IF InBudget(S, c)
    THEN [S EXCEPT !.pc[c] = "v_eval"]
    ELSE solver_result(S, c, "None")

\* page.eval_on_selector has ended
solver_eval(S, c, o) ==
    CASE o = "empty" ->
           [S EXCEPT !.polls[c] = @ + 1, !.reads[c] = Append(@, o),
                     !.pc[c] = "v_click"]
      [] o = "value" ->
           [S EXCEPT !.polls[c] = @ + 1, !.reads[c] = Append(@, o),
                     !.pc[c] = "v_read"]
      [] OTHER -> solver_raise(S, c, o)

\* the widget is clicked on an empty read
Clicks(S, c) == ~(S.mode = "async" /\ S.invisible[c])

\* the empty branch has ended: evaluate and click (the async solver: unless
\* invisible), the sleep, attempts += 1
solver_click(S, c, failed) ==
    IF failed = NoExc
    THEN [S EXCEPT !.clicks[c] = IF Clicks(S, c) THEN @ + 1 ELSE @,
                   !.attempts[c] = @ + 1,
                   !.pc[c] = "v_loop"]
    ELSE solver_raise(S, c, failed)

\* the non-empty branch has ended (query_selector, get_attribute): no
\* element breaks out of the loop, and None is returned
solver_read(S, c, o) ==
    CASE o = "no_element" ->
           solver_result([S EXCEPT !.reads[c] = Append(@, o)], c, "None")
      [] o = "token" ->
           solver_result([S EXCEPT !.reads[c] = Append(@, o)], c, "token")
      [] o = "none" ->
           solver_result([S EXCEPT !.reads[c] = Append(@, o)], c, "None")
      [] OTHER -> solver_raise(S, c, o)

\* the finally block has ended.  Async (lines 183-191): context.close and
\* browser.close; an exception of theirs is caught, and the handler then
\* reads result, which is unbound when the try block raised.  Sync (lines
\* 217-222, debug off): browser.close, whose exception leaves solve.
solver_close(S, c, ok) ==
    IF ok
    THEN [S EXCEPT !.events[c] = Append(@, "close"), !.pc[c] = "v_exit"]
    ELSE IF S.mode = "sync"
    THEN [S EXCEPT !.ex[c] = "close", !.raised[c] = @ \cup {"close"},
                   !.pc[c] = "v_exit"]
    ELSE IF S.pending[c] = NoResult
    THEN [S EXCEPT !.ex[c] = "UnboundLocalError",
                   !.raised[c] = @ \cup {"UnboundLocalError"},
                   !.pc[c] = "v_exit"]
    ELSE [S EXCEPT !.pc[c] = "v_exit"]

(* ---------------------------- process_turnstile ------------------------ *)
\* "if not url or not sitekey" (line 364)
MissingParameters(u, k) == u = "None" \/ k = "None"

\* process_turnstile (lines 356-388) for a request with the given url and
\* sitekey arguments: a request without one of them is answered with status
\* 400, the others go to _solve_turnstile
process_turnstile(S, r, u, k) ==
    IF MissingParameters(u, k)
    THEN [S EXCEPT !.url[r] = u,
                   !.result[r] =
                     [status |-> "error", result |-> "None", elapsed |-> "None",
                      error |-> "Missing required parameters: url and sitekey"],
                   !.pc[r] = "rejected"]
    ELSE solve_start(S, r, u)

(* ------------------------------ execution ------------------------------ *)
\* the labels at which a coroutine runs on without suspending
Transient ==
    {"gb_enter", "gb_loop", "rb_enter", "rb_body", "gp_start", "gp_enter",
     "gp_body", "rp_enter", "rp_body", "rp_pool", "h_ret", "s_got_browser",
     "s_get_page", "s_got_page", "s_loop", "s_except", "s_finally",
     "s_page_returned", "s_return_browser", "s_browser_returned",
     "s_outer_except", "v_loop", "v_exit"}

\* one statement of coroutine c
Exec(S, c) ==
    CASE S.pc[c] \in {"gb_enter", "gb_loop"} -> get_browser(S, c)
      [] S.pc[c] \in {"rb_enter", "rb_body"} -> return_browser(S, c)
      [] S.pc[c] \in {"gp_start", "gp_enter", "gp_body"} -> get_page(S, c)
      [] S.pc[c] \in {"rp_enter", "rp_body", "rp_pool"} -> return_page(S, c)
      [] S.pc[c] = "h_ret" -> client_return(S, c)
      [] S.pc[c] \in {"s_finally", "s_page_returned", "s_return_browser"} ->
           solve_finally(S, c)
      [] S.pc[c] = "v_loop" -> solver_loop(S, c)
      [] S.pc[c] = "v_exit" -> solver_exit(S, c)
      [] OTHER -> solve_turnstile(S, c)

RECURSIVE Run(_, _)
\* coroutine c runs to its next suspension point
Run(S, c) == IF S.pc[c] \in Transient THEN Run(Exec(S, c), c) ELSE S

\* the awaits of _solve_turnstile and of the pool operations it calls
Suspended ==
    {"gb_sleep", "gb_lockwait", "s_new_context", "pp_new_page", "gp_sleep",
     "gp_lockwait", "gp_new_page", "s_navigate", "s_eval", "s_click", "s_read",
     "rp_lockwait", "cl_goto", "cl_local", "cl_session", "cl_cookies",
     "rp_close", "rp_close2", "rb_lockwait"}

\* the suspension points of the acquires
Acquiring ==
    {"gb_sleep", "gb_lockwait", "gp_sleep", "gp_lockwait", "gp_new_page"}

(* ------------------------------- actions ------------------------------- *)
\* the pools are initialized before any client runs (BrowserPool.initialize,
\* PagePool.initialize); new_page may fail, which leaves the page pool empty
HarnessInitialize ==
    /\ mode \in {"browsers", "pages"}
    /\ phase = "constructed"
    /\ \E ok \in BOOLEAN :
         LET S1 == [St EXCEPT !.phase = "serving"] IN
         IF mode = "browsers"
         THEN ok /\ Set(BrowserPool_initialize(S1))
         ELSE Set(IF ok THEN PagePool_initialize(S1, StandalonePool) ELSE S1)

\* a client calls a pool operation
ClientCall(c) ==
    /\ mode \in {"browsers", "pages"}
    /\ phase = "serving"
    /\ pc[c] = "idle"
    /\ \E op \in {"get_browser", "return_browser", "get_page", "return_page"},
          b \in 0..ForeignBrowser,
          p \in CreatedPages(St, StandalonePool) \cup {NoPage, ForeignPage},
          n \in {0, 1} :
         LET a == [op |-> op, b |-> b, p |-> p, n |-> n] IN
         /\ CanCall(St, c, a)
         /\ Set(Run(client_call(St, c, a), c))

\* the client makes the second of its two release calls
ClientRepeat(c) ==
    /\ pc[c] = "h_again"
    /\ Set(Run(client_call(St, c, arg[c]), c))

\* asyncio.sleep(0.1) of get_browser (line 177) ends: the loop tests again
GetBrowserWake(c) ==
    /\ pc[c] = "gb_sleep"
    /\ Set(Run([St EXCEPT !.pc[c] = "gb_loop"], c))

\* the asyncio.Lock coroutine c waits for
LockOf(S, c) ==
    IF S.pc[c] \in {"gb_lockwait", "rb_lockwait"} THEN S.browser_lock
    ELSE S.page_lock[PoolOf(S, c)]

\* the first waiter of a released lock takes it and goes on into the body of
\* its "async with"
lock_grant(S, c) ==
    LET L == [holder |-> c, waiters |-> Tail(LockOf(S, c).waiters)] IN
    CASE S.pc[c] = "gb_lockwait" ->
           [S EXCEPT !.browser_lock = L, !.pc[c] = "gb_loop"]
      [] S.pc[c] = "rb_lockwait" ->
           [S EXCEPT !.browser_lock = L, !.pc[c] = "rb_body"]
      [] S.pc[c] = "gp_lockwait" ->
           [S EXCEPT !.page_lock[PoolOf(S, c)] = L, !.pc[c] = "gp_body"]
      [] S.pc[c] = "rp_lockwait" ->
           [S EXCEPT !.page_lock[PoolOf(S, c)] = L, !.pc[c] = "rp_body"]

\* a released lock (BrowserPool._lock, PagePool._lock) passes to its first
\* waiter
LockGrant(c) ==
    /\ pc[c] \in {"gb_lockwait", "rb_lockwait", "gp_lockwait", "rp_lockwait"}
    /\ LockOf(St, c).holder = 0
    /\ LockOf(St, c).waiters # <<>>
    /\ Head(LockOf(St, c).waiters) = c
    /\ Set(Run(lock_grant(St, c), c))

\* context.new_page() of get_page ends (line 117)
GetPageNewPage(c) ==
    /\ pc[c] = "gp_new_page"
    /\ \E ok \in BOOLEAN : Set(Run(get_page_new_page(St, c, ok), c))

\* asyncio.sleep(0.5) of get_page (line 125) ends: the loop goes round
GetPageWake(c) ==
    /\ pc[c] = "gp_sleep"
    /\ Set(Run([St EXCEPT !.pc[c] = "gp_enter"], c))

\* an await of _cleanup_page ends (lines 63, 67, 79, 91)
CleanupStep(c) ==
    /\ pc[c] \in {"cl_goto", "cl_local", "cl_session", "cl_cookies"}
    /\ \E ok \in BOOLEAN : Set(Run(cleanup_page(St, c, ok), c))

\* page.close() of return_page ends (lines 139, 144)
ClosePage(c) ==
    /\ pc[c] \in {"rp_close", "rp_close2"}
    /\ \E ok \in BOOLEAN : Set(Run(return_page_close(St, c, ok), c))

\* Time passes while an acquire is suspended: time.time() - start_time grows.
\* The clock is kept to what the timeout check tells apart: within
\* max_wait_time, or beyond it.
TimePasses(c) ==
    /\ pc[c] \in Acquiring
    /\ elapsed[c] <= max_wait_time
    /\ elapsed' = [elapsed EXCEPT ![c] = max_wait_time + 1]
    /\ UNCHANGED <<mode, phase, max_browsers, available_browsers,
                   in_use_browsers, browser_lock, max_size, page_pools,
                   available_pages, in_use_pages, page_lock, pages_created,
                   closed_pages, cleanup_failed, context_cookies, pc, ra, rv, ex,
                   browser, page, arg, waited, attempts, url, invisible, polls,
                   clicks, reads, pools_built, cancelled, closing,
                   closed_browsers,
                   result, pending, raised, events, last, misuse, pre, post,
                   overlap>>

(* ------------------------- actions of the server ----------------------- *)
\* TurnstileAPIServer._startup: the browser pool is built before the first
\* request is served; when it fails the server does not start
Startup ==
    /\ mode = "server"
    /\ phase = "constructed"
    /\ \E ok \in BOOLEAN :
         Set(IF ok THEN BrowserPool_initialize([St EXCEPT !.phase = "serving"])
             ELSE [St EXCEPT !.phase = "failed"])

\* a request arrives at /turnstile, with or without its url and sitekey
ProcessTurnstile(r) ==
    /\ mode = "server"
    /\ phase = "serving"
    /\ pc[r] = "idle"
    /\ \E u \in {"url", "None"}, k \in {"sitekey", "None"} :
         Set(Run(process_turnstile(St, r, u, k), r))

\* _solve_turnstile is called directly, with or without a url
SolveStart(r) ==
    /\ mode = "server"
    /\ phase = "serving"
    /\ pc[r] = "idle"
    /\ \E u \in {"url", "None"} : Set(Run(solve_start(St, r, u), r))

NewContext(r) ==
    /\ pc[r] = "s_new_context"
    /\ \E ok \in BOOLEAN : Set(Run(solve_new_context(St, r, ok), r))

InitializeNewPage(r) ==
    /\ pc[r] = "pp_new_page"
    /\ \E ok \in BOOLEAN : Set(Run(solve_initialize(St, r, ok), r))

Navigate(r) ==
    /\ pc[r] = "s_navigate"
    /\ \E failed \in {NoExc, "add_cookies", "route", "goto"} :
         /\ failed = "add_cookies" => Cookies(r)
         /\ Set(Run(solve_navigate(St, r, failed), r))

Poll(r) ==
    /\ pc[r] = "s_eval"
    /\ \E o \in {"empty", "value", "eval_on_selector"} :
         Set(Run(solve_eval(St, r, o), r))

Click(r) ==
    /\ pc[r] = "s_click"
    /\ \E failed \in {NoExc, "evaluate", "click"} :
         Set(Run(solve_click(St, r, failed), r))

ReadValue(r) ==
    /\ pc[r] = "s_read"
    /\ \E o \in {"no_element", "token", "none", "query_selector"} :
         Set(Run(solve_read(St, r, o), r))

\* the task of a request is cancelled while the request is suspended
Cancel(r) ==
    /\ mode = "server"
    /\ pc[r] \in Suspended
    /\ "CancelledError" \notin raised[r]
    /\ Set(Run(solve_cancel(St, r), r))

(* ------------------ actions of the standalone solvers ------------------ *)
\* solve is called.  Calls share no state (each launches its own browser),
\* so one caller is followed.
SolverCall(c) ==
    /\ mode \in {"async", "sync"}
    /\ c = 1
    /\ pc[c] = "idle"
    /\ \E inv \in BOOLEAN : Set(Run(solver_start(St, c, inv), c))

SolverLaunch(c) ==
    /\ pc[c] = "v_launch"
    /\ \E failed \in {NoExc, "launch", "new_context", "add_cookies"} :
         /\ mode = "sync" => failed \in {NoExc, "launch"}
         /\ Set(Run(solver_launch(St, c, failed), c))

SolverSetup(c) ==
    /\ pc[c] = "v_setup"
    /\ \E failed \in {NoExc, "new_page", "route", "goto"} :
         Set(Run(solver_setup(St, c, failed), c))

SolverPoll(c) ==
    /\ pc[c] = "v_eval"
    /\ \E o \in {"empty", "value", "eval_on_selector"} :
         Set(Run(solver_eval(St, c, o), c))

SolverClick(c) ==
    /\ pc[c] = "v_click"
    /\ \E failed \in {NoExc, "evaluate", "click"} :
         /\ failed # NoExc => Clicks(St, c)
         /\ Set(Run(solver_click(St, c, failed), c))

SolverRead(c) ==
    /\ pc[c] = "v_read"
    /\ \E o \in {"no_element", "token", "none", "query_selector"} :
         Set(Run(solver_read(St, c, o), c))

SolverClose(c) ==
    /\ pc[c] = "v_close"
    /\ \E ok \in BOOLEAN : Set(Run(solver_close(St, c, ok), c))

(* ---------------------------- specifications --------------------------- *)
InitCommon ==
    /\ phase = "constructed"
    /\ available_browsers = <<>>
    /\ in_use_browsers = {}
    /\ browser_lock = FreeLock
    /\ available_pages = [k \in 1..MaxBrowsers |-> <<>>]
    /\ in_use_pages = [k \in 1..MaxBrowsers |-> {}]
    /\ page_lock = [k \in 1..MaxBrowsers |-> FreeLock]
    /\ pages_created = [k \in 1..MaxBrowsers |-> 0]
    /\ closed_pages = {}
    /\ cleanup_failed = {}
    /\ context_cookies = [k \in 1..MaxBrowsers |-> {}]
    /\ pc = [c \in Procs |-> "idle"]
    /\ ra = [c \in Procs |-> "idle"]
    /\ rv = [c \in Procs |-> NoHandle]
    /\ ex = [c \in Procs |-> NoExc]
    /\ browser = [c \in Procs |-> NoBrowser]
    /\ page = [c \in Procs |-> NoPage]
    /\ arg = [c \in Procs |-> NoArg]
    /\ elapsed = [c \in Procs |-> 0]
    /\ waited = [c \in Procs |-> "no"]
    /\ attempts = [c \in Procs |-> 0]
    /\ url = [c \in Procs |-> "url"]
    /\ invisible = [c \in Procs |-> FALSE]
    /\ polls = [c \in Procs |-> 0]
    /\ clicks = [c \in Procs |-> 0]
    /\ reads = [c \in Procs |-> <<>>]
    /\ pools_built = [k \in 1..MaxBrowsers |-> 0]
    /\ cancelled = [c \in Procs |-> FALSE]
    /\ closing = <<>>
    /\ closed_browsers = {}
    /\ result = [c \in Procs |-> NoResult]
    /\ pending = [c \in Procs |-> NoResult]
    /\ raised = [c \in Procs |-> {}]
    /\ events = [c \in Procs |-> <<>>]
    /\ last = [c \in Procs |-> NoLast]
    /\ misuse = FALSE
    /\ pre = [c \in Procs |-> NoPre]
    /\ post = [c \in Procs |-> NoPost]
    /\ overlap = [c \in Procs |-> FALSE]

\* the pools driven directly: a BrowserPool and one PagePool, constructed
PoolInit ==
    /\ \/ /\ mode = "browsers"
          /\ max_browsers \in 1..MaxBrowsers
          /\ max_size = 1
          /\ page_pools = {}
       \/ /\ mode = "pages"
          /\ max_browsers = 1
          /\ max_size \in 1..MaxPoolSize
          /\ page_pools = {StandalonePool}
    /\ InitCommon

PoolNext ==
    \/ HarnessInitialize
    \/ \E c \in Procs : ClientCall(c)
    \/ \E c \in Procs : ClientRepeat(c)
    \/ \E c \in Procs : GetBrowserWake(c)
    \/ \E c \in Procs : LockGrant(c)
    \/ \E c \in Procs : GetPageNewPage(c)
    \/ \E c \in Procs : GetPageWake(c)
    \/ \E c \in Procs : CleanupStep(c)
    \/ \E c \in Procs : TimePasses(c)

PoolSpec == PoolInit /\ [][PoolNext]_vars

\* The event loop runs every coroutine that is ready: a sleep that has ended,
\* a granted lock and a finished page operation are followed by the
\* coroutine's next run.  Clients are not obliged to call.
\* BrowserPool.cleanup is called on the initialized pool
Cleanup ==
    /\ mode = "browsers"
    /\ phase = "serving"
    /\ \E in_use \in Listings(in_use_browsers) :
         Set(BrowserPool_cleanup(St, in_use))

\* browser.close() of cleanup ends
CleanupClose ==
    /\ phase = "closing"
    /\ \E ok \in BOOLEAN : Set(BrowserPool_cleanup_close(St, ok))

\* playwright.stop() of cleanup ends
CleanupStop ==
    /\ phase = "stopping"
    /\ Set(BrowserPool_cleanup_stop(St))

\* the pools with their callers, and the shutdown of the browser pool
ShutdownNext == PoolNext \/ Cleanup \/ CleanupClose \/ CleanupStop

ShutdownSpec == PoolInit /\ [][ShutdownNext]_vars

FairPoolSpec ==
    /\ PoolSpec
    /\ \A c \in Procs :
         /\ WF_vars(ClientRepeat(c))
         /\ WF_vars(GetBrowserWake(c))
         /\ WF_vars(LockGrant(c))
         /\ WF_vars(GetPageNewPage(c))
         /\ WF_vars(GetPageWake(c))
         /\ WF_vars(CleanupStep(c))

\* The resolvers.  Mode "async" / "sync": a standalone solver is called.
\* Mode "server": requests run _solve_turnstile concurrently.  No request ever
\* waits for a PagePool lock or sleeps in get_page here, and a waiter for the
\* BrowserPool lock is never served (the lock is only kept across a
\* suspension by a get_browser that is never satisfied): LockGrant is never
\* enabled, as LockNeverPasses states.
Init ==
    /\ \/ /\ mode = "server"
          /\ max_browsers \in 1..MaxBrowsers
       \/ /\ mode \in {"async", "sync"}
          /\ max_browsers = 1
    /\ max_size = MaxPoolSize
    /\ page_pools = {}
    /\ InitCommon

Next ==
    \/ Startup
    \/ \E r \in Procs : ProcessTurnstile(r)
    \/ \E r \in Procs : SolveStart(r)
    \/ \E r \in Procs : GetBrowserWake(r)
    \/ \E r \in Procs : NewContext(r)
    \/ \E r \in Procs : InitializeNewPage(r)
    \/ \E r \in Procs : GetPageNewPage(r)
    \/ \E r \in Procs : Navigate(r)
    \/ \E r \in Procs : Poll(r)
    \/ \E r \in Procs : Click(r)
    \/ \E r \in Procs : ReadValue(r)
    \/ \E r \in Procs : CleanupStep(r)
    \/ \E c \in Procs : SolverCall(c)
    \/ \E c \in Procs : SolverLaunch(c)
    \/ \E c \in Procs : SolverSetup(c)
    \/ \E c \in Procs : SolverPoll(c)
    \/ \E c \in Procs : SolverClick(c)
    \/ \E c \in Procs : SolverRead(c)
    \/ \E c \in Procs : SolverClose(c)

Spec == Init /\ [][Next]_vars

\* the server and the solvers, with requests that may be cancelled
CancelNext == Next \/ \E r \in Procs : Cancel(r)

CancelSpec == Init /\ [][CancelNext]_vars

\* whoever waits for a lock waits for a lock that is held
LockNeverPasses ==
    \A c \in Procs :
       pc[c] \in {"gb_lockwait", "rb_lockwait", "gp_lockwait", "rp_lockwait"}
         => LockOf(St, c).holder # 0

(* ------------------------------- the claims ---------------------------- *)
\* C1: for both pools, after initialize and under every interleaving of
\* acquire and release calls, len(available) + len(in_use) never exceeds the
\* capacity (max_browsers for the BrowserPool, max_size for a PagePool).
C1_Capacity ==
    /\ Len(available_browsers) + Cardinality(in_use_browsers) <= max_browsers
    /\ \A k \in page_pools :
         Len(available_pages[k]) + Cardinality(in_use_pages[k]) <= max_size

\* a PagePool grown to capacity by get_page, with pages both available and
\* in use
C1_Witness ==
    /\ mode = "pages"
    /\ available_pages[StandalonePool] # <<>>
    /\ in_use_pages[StandalonePool] # {}
    /\ Len(available_pages[StandalonePool])
         + Cardinality(in_use_pages[StandalonePool]) = max_size
    /\ pages_created[StandalonePool] = MaxPoolSize

\* the handles a pool has created and not closed
OpenBrowsers ==
    IF mode \in {"browsers", "server"} /\ phase = "serving"
    THEN 1..max_browsers ELSE {}

OpenPages(k) == CreatedPages(St, k) \ closed_pages

\* page p of pool k is inside a return_page call, between its removal from
\* in_use_pages and its append to available_pages: the call is suspended in
\* _cleanup_page and holds the pool's lock
BeingCleaned(k, p) ==
    \E c \in Procs :
       /\ pc[c] \in {"cl_goto", "cl_local", "cl_session", "cl_cookies"}
       /\ PoolOf(St, c) = k
       /\ arg[c].p = p
       /\ page_lock[k].holder = c

\* C2 as stated: every handle a pool has created and not closed is in
\* exactly one of available and in_use in every reachable state, the states
\* in which a pool operation is suspended at an await included.
C2_ExactlyOneAlways ==
    /\ \A b \in OpenBrowsers :
         (b \in Range(available_browsers)) # (b \in in_use_browsers)
    /\ \A k \in page_pools : \A p \in OpenPages(k) :
         (p \in Range(available_pages[k])) # (p \in in_use_pages[k])

\* C2, amended: every handle a pool has created and not closed is in exactly
\* one of available and in_use in every reachable state, except a page that
\* a return_page call is cleaning, which is in neither set while that call,
\* holding the pool's lock, is suspended in _cleanup_page.
C2_ExactlyOne ==
    /\ \A b \in OpenBrowsers :
         (b \in Range(available_browsers)) # (b \in in_use_browsers)
    /\ \A k \in page_pools : \A p \in OpenPages(k) :
         IF BeingCleaned(k, p)
         THEN p \notin Range(available_pages[k]) /\ p \notin in_use_pages[k]
         ELSE (p \in Range(available_pages[k])) # (p \in in_use_pages[k])

\* a return_page is suspended in the cleanup of its page while a get_page
\* waits for the pool's lock
C2_Witness ==
    /\ mode = "pages"
    /\ \E c \in Procs : pc[c] = "gp_lockwait"
    /\ \E p \in OpenPages(StandalonePool) : BeingCleaned(StandalonePool, p)

\* C3: no double-issue.  Under every interleaving of concurrent callers that
\* release what they hold (as the requests of the server do), get_page /
\* get_browser never returns a handle that is in in_use: no two callers hold
\* the same browser or the same page at the same time, and what a caller
\* holds is in in_use.
C3_NoDoubleIssue ==
    ~misuse =>
      \A r1, r2 \in Procs :
         /\ browser[r1] # NoBrowser =>
              /\ r1 # r2 => browser[r1] # browser[r2]
              /\ browser[r1] \in in_use_browsers
         /\ page[r1] # NoPage /\ arg[r1].op # "return_page" =>
              /\ r1 # r2 => page[r1] # page[r2]
              /\ page[r1] \in in_use_pages[StandalonePool]

\* two callers hold pages of the same PagePool at the same time, the second
\* one issued while the first was checked out
C3_Witness ==
    \E r1, r2 \in Procs :
       /\ r1 # r2
       /\ mode = "pages"
       /\ ~misuse
       /\ page[r1] \in in_use_pages[StandalonePool]
       /\ page[r2] \in in_use_pages[StandalonePool]
       /\ pc[r1] = "idle" /\ pc[r2] = "idle"

\* the callers that hold a handle: their acquire has completed and their
\* release has not
Holders == {c \in Procs : browser[c] # NoBrowser \/ page[c] # NoPage}

\* C4: with a pool of capacity 1 (max_browsers = 1, max_size = 1) and two
\* concurrent acquirers, the second acquire completes only after the first
\* holder has released its handle: two callers never hold a handle at once.
C4_ExhaustiveWait ==
    ~misuse =>
      /\ mode = "browsers" /\ max_browsers = 1 => Cardinality(Holders) <= 1
      /\ mode = "pages" /\ max_size = 1 => Cardinality(Holders) <= 1

\* with max_size = 1, a get_page that had to sleep has completed, after the
\* first holder's release
C4_Witness ==
    /\ mode = "pages"
    /\ max_size = 1
    /\ ~misuse
    /\ \E c \in Procs :
         /\ page[c] \in in_use_pages[StandalonePool]
         /\ last[c].waited = "slept"
         /\ \A o \in Procs \ {c} : page[o] = NoPage /\ pc[o] = "idle"

\* C5: a blocked acquire makes progress once a slot frees.  When every
\* browser is checked out and a caller waits inside get_browser, a holder's
\* return_browser still completes (and the waiting get_browser then returns):
\* a return_browser that waits for the pool's lock eventually has it.
C5_ReleaseCompletes ==
    \A c \in Procs : (pc[c] = "rb_lockwait") ~> (pc[c] # "rb_lockwait")

\* C6 as stated: an acquire that cannot obtain a handle within the pool's
\* maximum wait fails with a timeout rather than waiting on, for get_page and
\* for get_browser: no acquire goes (back) to sleep once its wait has
\* exceeded max_wait_time.
C6_AcquireTimesOut ==
    \A c \in Procs : waited[c] # "overdue" /\ last[c].waited # "overdue"

\* C6, amended: PagePool.get_page fails with TimeoutError rather than waiting
\* on once its wait has exceeded max_wait_time: it never goes (back) to sleep
\* then.  (BrowserPool.get_browser has no maximum wait.)
C6_GetPageTimesOut ==
    \A c \in Procs :
       mode = "pages" => waited[c] # "overdue" /\ last[c].waited # "overdue"

\* a get_page that slept has ended with TimeoutError
C6_Witness ==
    \E c \in Procs :
       /\ mode = "pages"
       /\ last[c].ex = "TimeoutError"
       /\ last[c].waited = "slept"
       /\ page[c] = NoPage

\* C7: on every exit of _solve_turnstile after a browser was checked out
\* (success, attempt exhaustion, exception at any step) the checked-out page,
\* if any, has been returned with return_page and the browser with
\* return_browser, and return_page completed before return_browser was
\* invoked: the request's calls end with return_page (when get_page had
\* returned a page), then return_browser, and both handles are released.
C7_ReleaseInOrder ==
    \A r \in Procs :
       pc[r] = "done" /\ "get_browser" \in Range(events[r]) =>
         LET e == events[r]
             n == Len(e)
         IN  /\ e[n] = "return_browser"
             /\ "get_page" \in Range(e) =>
                  e[n - 1] = "return_page" /\ e[n - 2] = "get_page"
             /\ "get_page" \notin Range(e) => e[n - 1] = "get_browser"
             /\ post[r].released

\* two requests that had checked out a page have ended, one with an error
\* raised while polling, the other without one
C7_Witness ==
    \E r1, r2 \in Procs :
       /\ pc[r1] = "done" /\ pc[r2] = "done"
       /\ result[r1].status = "error" /\ result[r1].error = "click"
       /\ result[r2].status \in {"success", "failure"}
       /\ events[r1] = <<"get_browser", "get_page", "return_page",
                         "return_browser">>
       /\ events[r2] = events[r1]

\* a request that ended after page.route or page.goto raised
NavigationFailed(r) == pc[r] = "done" /\ result[r].error \in {"route", "goto"}

\* C8 as stated: if the navigation (page.route / page.goto) raises, the call
\* returns status "error", the browser is back in available_browsers and the
\* page is not in in_use_pages, and the available and in-use counts of both
\* pools equal their values before the call (for a call during which no
\* other request was in flight).
C8_CountsRestored ==
    \A r \in Procs :
       NavigationFailed(r) =>
         /\ result[r].status = "error"
         /\ post[r].released
         /\ ~overlap[r] =>
              /\ post[r].ab = pre[r].ab /\ post[r].ib = pre[r].ib
              /\ post[r].ap = pre[r].ap /\ post[r].ip = pre[r].ip

\* C8, amended: if the navigation raises, the call returns status "error",
\* the browser is back in available_browsers and the page is not in
\* in_use_pages; for a call during which no other request was in flight, the
\* counts of the browser pool and the number of in-use pages equal their
\* values before the call, and the number of available pages has grown by
\* the number of pages the call created (none or one).
C8_HandlesReturned ==
    \A r \in Procs :
       NavigationFailed(r) =>
         /\ result[r].status = "error"
         /\ post[r].released
         /\ ~overlap[r] =>
              /\ post[r].ab = pre[r].ab /\ post[r].ib = pre[r].ib
              /\ post[r].ip = pre[r].ip
              /\ post[r].ap - pre[r].ap = post[r].made - pre[r].made
              /\ post[r].made - pre[r].made \in {0, 1}

\* page.goto raised in a request that ran alone on a browser whose PagePool
\* an earlier request had built: the counts are as before the call
C8_Witness ==
    \E r \in Procs :
       /\ NavigationFailed(r)
       /\ result[r].error = "goto"
       /\ ~overlap[r]
       /\ pre[r].ap = 1
       /\ post[r] = [ab |-> pre[r].ab, ib |-> 0, ap |-> 1, ip |-> 0,
                     made |-> 1, released |-> TRUE]

\* C9: any exception raised inside _solve_turnstile after it is entered is
\* caught and converted into a result with status "error" and the
\* stringified cause as reason; no exception propagates to the caller.
C9_ExceptionsBecomeErrors ==
    \A r \in Procs :
       /\ pc[r] # "propagated"
       /\ pc[r] = "done" /\ raised[r] # {} =>
            /\ result[r].status = "error"
            /\ result[r].error \in raised[r]
            /\ result[r].result = "None"

\* browser.new_context() raised while the PagePool was being constructed,
\* and the request has ended with that error
C9_Witness ==
    \E r \in Procs :
       /\ pc[r] = "done"
       /\ raised[r] = {"new_context"}
       /\ result[r].status = "error"
       /\ result[r].error = "new_context"

\* no handle is twice in a sequence
NoDuplicates(s) == \A i, j \in 1..Len(s) : s[i] = s[j] => i = j

\* caller c runs the body of the second of two releases of a handle that has
\* not been issued again since the first
SecondRelease(c) ==
    /\ arg[c].n = 2
    /\ pc[c] \in {"h_again", "rb_lockwait", "rp_lockwait"}
    /\ pc'[c] # pc[c]
    /\ ~CheckedOut(St, arg[c])

\* C10: idempotent release.  From any reachable pool state, calling release
\* (return_page / return_browser) a second time on a handle leaves available
\* and in_use as they are after the first call, and a handle is at most once
\* in available.
C10_IdempotentRelease ==
    /\ [](/\ NoDuplicates(available_browsers)
          /\ \A k \in page_pools : NoDuplicates(available_pages[k]))
    /\ [][\A c \in Procs :
            SecondRelease(c) =>
              UNCHANGED <<available_browsers, in_use_browsers,
                          available_pages, in_use_pages>>]_vars

\* a second return_page on the same page has completed and the page is once
\* in available_pages
C10_Witness ==
    \E c \in Procs :
       /\ mode = "pages"
       /\ last[c].n = 2
       /\ last[c].ex = NoExc
       /\ \E p \in OpenPages(StandalonePool) :
            available_pages[StandalonePool] = <<p>>

\* In this step caller c's release call has run from the membership test to
\* its return, on a handle that was not in in_use when the call took the
\* lock: released before, or never issued by the pool.
ReleaseOfNotInUse(c) ==
    /\ pc[c] \in {"idle", "h_again", "rb_lockwait", "rp_lockwait"}
    /\ pc'[c] = "idle"
    /\ pc'[c] # pc[c] \/ last'[c] # last[c]
    /\ last'[c].op \in {"return_browser", "return_page"}
    /\ ~CheckedOut(St, last'[c])

\* C11: releasing a handle that is not in in_use (already released, or never
\* issued by this pool) is silently ignored: return_page and return_browser
\* complete without raising and leave available and in_use as they are.
C11_ReleaseIgnored ==
    [][\A c \in Procs :
         ReleaseOfNotInUse(c) =>
           /\ last'[c].ex = NoExc
           /\ UNCHANGED <<available_browsers, in_use_browsers,
                          available_pages, in_use_pages>>]_vars

\* C12: if page cleanup fails during return_page (the blank navigation, a
\* storage-clearing step or the cookie-clearing step raises), the page is
\* closed and is not appended to available_pages, so that no later get_page
\* hands it out: once the return_page has left _cleanup_page, a page whose
\* cleanup failed is closed, not available and not in use.
C12_FailedCleanupDiscarded ==
    \A k \in page_pools : \A p \in cleanup_failed \cap CreatedPages(St, k) :
       ~BeingCleaned(k, p) =>
         /\ p \in closed_pages
         /\ p \notin Range(available_pages[k])
         /\ p \notin in_use_pages[k]

\* C13: cleanup-before-reuse.  Whenever get_page hands a request a page that
\* an earlier request used and returned, the page's context holds none of the
\* cookies the earlier request installed; equivalently, every page in
\* available_pages has been through all of _cleanup_page since its last use
\* (navigated to blank, storage and cookies cleared) and its context holds no
\* request's cookies.
C13_CleanBeforeReuse ==
    /\ \A r \in Procs :
         pc[r] \in {"s_navigate", "s_eval", "s_click", "s_read"} =>
           context_cookies[browser[r]] \subseteq {r}
    /\ \A k \in page_pools : \A p \in Range(available_pages[k]) :
         /\ p \notin cleanup_failed
         /\ context_cookies[k] = {}

\* the response field read empty on the first k-1 polls of c and non-empty
\* on the k-th
KthPoll(c, k) ==
    /\ Len(reads[c]) >= k
    /\ reads[c][k] = "value"
    /\ \A i \in 1..(k - 1) : reads[c][i] = "empty"

\* c has moved on from the read of the field that follows a non-empty poll,
\* and no exception was raised in its call
PastRead(c) == pc[c] \notin {"s_read", "v_read"} /\ raised[c] = {}

MaxAttemptsReached ==
    {"Max attempts reached without solution",
     "Max attempts reached without token retrieval"}

\* the response field has read empty on max_attempts polls of c, the round
\* after the last one is over, and no exception was raised in c's call
Exhausted(c) ==
    /\ polls[c] = max_attempts
    /\ \A i \in 1..Len(reads[c]) : reads[c][i] = "empty"
    /\ pc[c] \notin {"s_click", "v_click"}
    /\ raised[c] = {}

\* C15: if the response field reads empty on all 10 polls, the resolver stops
\* after exactly 10 polls, each followed by one inter-attempt sleep (there is
\* no 11th poll), and returns status "failure" with a null token and a reason
\* saying that the maximum number of attempts was reached.
C15_ExhaustionFails ==
    /\ [](\A c \in Procs :
            /\ polls[c] <= max_attempts
            /\ Exhausted(c) =>
                 /\ attempts[c] = max_attempts
                 /\ pending[c].status = "failure"
                 /\ pending[c].result = "None"
                 /\ pending[c].error \in MaxAttemptsReached)
    /\ [][\A c \in Procs :
            /\ pending[c].status = "failure"
            /\ pc'[c] \in {"done", "returned"}
            /\ pc[c] # pc'[c]
            => /\ result'[c].status = "failure"
               /\ result'[c].result = "None"
               /\ result'[c].error \in MaxAttemptsReached]_vars

\* a request of the server has polled ten times, read empty each time, and
\* is releasing its page with the failure result pending
C15_Witness ==
    \E r \in Procs :
       /\ mode = "server"
       /\ Exhausted(r)
       /\ clicks[r] = max_attempts
       /\ pending[r].status = "failure"
       /\ pc[r] = "cl_goto"

\* C16: a solve request with a missing url or site key, submitted through
\* process_turnstile or directly to _solve_turnstile, is rejected before any
\* resource is acquired: it makes no get_browser or get_page call and holds
\* no browser and no page.
C16_RejectedBeforeAcquire ==
    \A r \in Procs :
       url[r] = "None" =>
         /\ pc[r] = "rejected"
         /\ events[r] = <<>>
         /\ browser[r] = NoBrowser
         /\ page[r] = NoPage

\* C17: every result a resolver returns (_solve_turnstile, and solve of the
\* standalone solvers) has status success, failure or error; its token is
\* present exactly when the status is success, and its reason is present
\* exactly when the status is not success.
Returned(c) == pc[c] \in {"done", "returned"}

C17_ResultShape ==
    \A c \in Procs :
       Returned(c) =>
         /\ result[c].status \in {"success", "failure", "error"}
         /\ result[c].result # "None" <=> result[c].status = "success"
         /\ result[c].error # "None" <=> result[c].status # "success"

\* one request has returned a success and the other a failure or an error
C17_Witness ==
    /\ Returned(1) /\ result[1].status = "success"
    /\ result[1].result = "token" /\ result[1].error = "None"
    /\ Returned(2) /\ result[2].status \in {"failure", "error"}
    /\ result[2].result = "None" /\ result[2].error # "None"

\* C18: a request cancelled at a suspension point after it has checked out a
\* browser (page checkout, navigation, polling, or inside the release block)
\* still returns its browser and its page: when the CancelledError has left
\* _solve_turnstile the browser is in available_browsers or with a later
\* request, and the page is pooled, closed, or with a later request.
BrowserKept(r) ==
    \/ browser[r] = NoBrowser
    \/ browser[r] \in Range(available_browsers)
    \/ \E q \in Procs \ {r} : Active(St, q) /\ browser[q] = browser[r]

PageKept(r) ==
    \/ page[r] = NoPage
    \/ page[r] \in closed_pages
    \/ \E k \in page_pools :
         page[r] \in Range(available_pages[k]) \cup in_use_pages[k]

C18_CancelledReleases ==
    \A r \in Procs : pc[r] = "cancelled" => BrowserKept(r) /\ PageKept(r)

\* C19: for each browser at most one PagePool is ever constructed and
\* registered in page_pools, whatever the interleaving of the requests, and
\* every request that has a browser and is past the lazy construction works
\* on that one PagePool.
PastConstruction(r) ==
    /\ browser[r] # NoBrowser
    /\ pc[r] \notin {"s_new_context", "done", "rejected", "cancelled",
                     "propagated", "idle"}
    /\ "new_context" \notin raised[r]

C19_OnePagePoolPerBrowser ==
    /\ \A k \in 1..MaxBrowsers :
         /\ pools_built[k] <= 1
         /\ k \in page_pools <=> pools_built[k] = 1
    /\ \A r \in Procs :
         PastConstruction(r) =>
           browser[r] \in page_pools /\ pools_built[browser[r]] = 1

\* two requests have run on the only browser, each with a page of its one
\* PagePool
C19_Witness ==
    /\ mode = "server"
    /\ max_browsers = 1
    /\ pools_built[1] = 1
    /\ \A r \in Procs :
         /\ pc[r] = "done"
         /\ \E i \in 1..Len(events[r]) : events[r][i] = "get_page"

\* C20: AsyncTurnstileSolver.solve and TurnstileSolver.solve always hand the
\* caller a result: when page setup, navigation or polling has raised (and
\* nothing else has), solve has closed the browser and returns a
\* result with status "error" and that cause as its reason; it does not
\* raise.
SolveCauses ==
    {"new_page", "route", "goto", "eval_on_selector", "evaluate", "click",
     "query_selector"}

C20_SolversReturnError ==
    \A c \in Procs :
       /\ mode \in {"async", "sync"}
       /\ pc[c] \in {"returned", "raised"}
       /\ raised[c] # {}
       /\ raised[c] \subseteq SolveCauses
       => /\ pc[c] = "returned"
          /\ \E i \in 1..Len(events[c]) : events[c][i] = "close"
          /\ result[c].status = "error"
          /\ result[c].error \in raised[c]

\* C21: neither pool's lock is held while a page or browser operation
\* (new_page, goto, evaluate, clear_cookies, close) or a sleep is in progress:
\* a coroutine suspended in one of these awaits holds no lock.
SlowAwaits ==
    {"gb_sleep", "gp_sleep", "gp_new_page", "cl_goto", "cl_local", "cl_session",
     "cl_cookies", "rp_close", "rp_close2"}

HoldsLock(c) ==
    \/ browser_lock.holder = c
    \/ \E k \in 1..MaxBrowsers : page_lock[k].holder = c

C21_NoLockAcrossAwait ==
    \A c \in Procs : pc[c] \in SlowAwaits => ~HoldsLock(c)

\* C22: within one request the steps are strictly ordered: every page
\* operation (add_cookies, route, goto, eval_on_selector, click, the read of
\* the value) happens after get_browser and get_page have returned and before
\* return_page is invoked, navigation before any poll; the page operated on
\* is checked out, is not in available_pages, and is held by no other
\* request.
PageOperations == {"s_navigate", "s_eval", "s_click", "s_read"}

C22_OperationsOnHeldPage ==
    \A r \in Procs :
       pc[r] \in PageOperations =>
         /\ events[r] = <<"get_browser", "get_page">>
         /\ pc[r] = "s_navigate" => polls[r] = 0 /\ clicks[r] = 0
         /\ browser[r] \in in_use_browsers
         /\ page[r] \in in_use_pages[browser[r]]
         /\ \A k \in page_pools : page[r] \notin Range(available_pages[k])
         /\ \A q \in Procs \ {r} :
              page[q] # page[r] /\ browser[q] # browser[r]

\* one request polls while the other navigates, each on a page of its own
C22_Witness ==
    /\ pc[1] = "s_eval" /\ polls[1] > 0
    /\ pc[2] = "s_navigate"
    /\ page[1] # NoPage /\ page[2] # NoPage

\* C23: each step of _cleanup_page is independently best-effort: when the
\* blank navigation has ended, failed or not, the localStorage clearing is
\* attempted next, then the sessionStorage clearing, then the cookie
\* clearing, whatever the outcome of the step before.
NextCleanupStep(label) ==
    CASE label = "cl_goto" -> "cl_local"
      [] label = "cl_local" -> "cl_session"
      [] label = "cl_session" -> "cl_cookies"

C23_CleanupStepsIndependent ==
    [][\A c \in Procs :
         pc[c] \in {"cl_goto", "cl_local", "cl_session"} /\ pc'[c] # pc[c]
         => pc'[c] = NextCleanupStep(pc[c])]_vars

\* C24 as stated: an acquire on a pool whose available queue is empty and
\* whose |in_use| is below capacity creates a new handle, places it directly
\* in in_use and returns it: the get_page that was creating a page ends with
\* the new page checked out and in the caller's hands.
CreatedPage(c) ==
    /\ page'[c] = NewPage(St, StandalonePool)
    /\ pages_created'[StandalonePool] = pages_created[StandalonePool] + 1
    /\ page'[c] \in in_use_pages'[StandalonePool]
    /\ page'[c] \notin Range(available_pages'[StandalonePool])
    /\ last'[c].op = "get_page" /\ last'[c].ex = NoExc
    /\ last'[c].waited = "no"

CreatingWithRoom ==
    \A c \in Procs :
       mode = "pages" /\ pc[c] = "gp_new_page" =>
         /\ available_pages[StandalonePool] = <<>>
         /\ Cardinality(in_use_pages[StandalonePool]) < max_size
         /\ page_lock[StandalonePool].holder = c

NoBrowserCreated ==
    mode = "browsers" /\ phase = "serving" =>
      /\ Range(available_browsers) \cup in_use_browsers = 1..max_browsers
      /\ available_browsers = <<>> =>
           Cardinality(in_use_browsers) = max_browsers

NewPageFailed(c) ==
    /\ last'[c].op = "get_page" /\ last'[c].ex = "new_page"
    /\ page'[c] = page[c]
    /\ pages_created' = pages_created
    /\ in_use_pages' = in_use_pages
    /\ available_pages' = available_pages

IssuesHead(q, qq, held, heldd) ==
    /\ q # <<>>
    /\ qq = Tail(q)
    /\ \E c \in Procs : heldd[c] = Head(q) /\ held[c] # Head(q)

EntersAtTail(q, qq) == Len(qq) = Len(q) + 1 /\ SubSeq(qq, 1, Len(q)) = q

C25_FifoReuse ==
    [][/\ available_browsers' # available_browsers =>
            \/ phase = "constructed" /\ available_browsers' = UpTo(max_browsers)
            \/ EntersAtTail(available_browsers, available_browsers')
            \/ IssuesHead(available_browsers, available_browsers',
                          browser, browser')
       /\ \A k \in 1..MaxBrowsers :
            mode = "pages" /\ available_pages'[k] # available_pages[k] =>
              \/ EntersAtTail(available_pages[k], available_pages'[k])
              \/ IssuesHead(available_pages[k], available_pages'[k],
                            page, page')]_vars

\* browser 2 was released before browser 1 and has been issued again first:
\* the caller that released 2 last holds nothing, the other caller holds 2,
\* and 1 is still available
C25_Witness ==
    /\ mode = "browsers"
    /\ max_browsers = 2
    /\ ~misuse
    /\ available_browsers = <<1>>
    /\ \E c \in Procs, o \in Procs :
         /\ c # o
         /\ browser[c] = 2 /\ last[c].op = "get_browser"
         /\ browser[o] = NoBrowser
         /\ last[o].op = "return_browser" /\ last[o].b = 2
         /\ last[o].ex = NoExc

\* C26: BrowserPool.cleanup closes every browser of available_browsers and
\* of in_use_browsers and stops the engine only after all of them are closed;
\* once cleanup has ended no browser of the pool is open, also when closing
\* one of them failed.
CleanupEnded == phase \in {"stopped", "cleanup_raised"}

C26_ShutdownClosesAll ==
    /\ phase \in {"stopping", "stopped"} =>
         closed_browsers = 1..max_browsers
    /\ CleanupEnded => closed_browsers = 1..max_browsers

\* C27: every result _solve_turnstile returns, whatever its status, carries
\* an elapsed time (measured from the start instant taken before
\* get_browser).
C27_ElapsedAlways ==
    \A r \in Procs :
       mode = "server" /\ pc[r] = "done" => result[r].elapsed # "None"

\* C28: a result with status "failure" (maximum attempts reached) is built
\* only when the attempt budget is exhausted: the response field has read
\* empty on all max_attempts polls of the request.
C28_FailureOnlyWhenExhausted ==
    \A c \in Procs :
       pending[c].status = "failure" =>
         /\ polls[c] = max_attempts
         /\ Len(reads[c]) = max_attempts
         /\ \A i \in 1..Len(reads[c]) : reads[c][i] = "empty"

\* C29: in the server a browser is held by at most one request at a time and
\* its PagePool is reached only through it, so at most one page of a
\* browser's PagePool is in in_use_pages at any time; get_page called from
\* _solve_turnstile never sleeps in its wait loop and never raises
\* TimeoutError.
C29_OnePageInUse ==
    mode = "server" =>
      /\ \A k \in page_pools : Cardinality(in_use_pages[k]) <= 1
      /\ \A r \in Procs :
           /\ pc[r] # "gp_sleep"
           /\ "TimeoutError" \notin raised[r]
           /\ pc[r] \in {"gp_lockwait", "gp_new_page"} =>
                in_use_pages[browser[r]] = {}

\* with one browser, one request polls on its page while the other waits for
\* the browser, not for a page
C29_Witness ==
    /\ mode = "server"
    /\ max_browsers = 1
    /\ pc[1] = "s_eval"
    /\ in_use_pages[1] = {page[1]}
    /\ pc[2] \in {"gb_sleep", "gb_lockwait"}

\* C30: between initialize and cleanup the BrowserPool neither creates nor
\* destroys a browser: between the updates of get_browser and return_browser,
\* available_browsers and in_use_browsers are disjoint, together they are
\* exactly the max_browsers browsers of initialize, and no browser is twice
\* in available_browsers.
C30_BrowsersConserved ==
    mode \in {"browsers", "server"} /\ phase = "serving" =>
      /\ Range(available_browsers) \cap in_use_browsers = {}
      /\ Range(available_browsers) \cup in_use_browsers = 1..max_browsers
      /\ Len(available_browsers) = Cardinality(Range(available_browsers))
      /\ closed_browsers = {}

\* a browser was released a second time (KeyError) while one browser is
\* checked out and the other available
C30_Witness ==
    /\ mode = "browsers"
    /\ max_browsers = 2
    /\ Len(available_browsers) = 1
    /\ Cardinality(in_use_browsers) = 1
    /\ \E c \in Procs :
         /\ last[c].op = "return_browser" /\ last[c].ex = "KeyError"
         /\ last[c].b \in Range(available_browsers)

\* C31 as stated, with min_size (the only lower limit a PagePool has) as the
\* low-water mark: a release pools the cleaned page only when that does not
\* push |available_pages| above min_size or when the pool has no more than
\* min_size pages; otherwise it closes the page.
CleanupLabels == {"cl_goto", "cl_local", "cl_session", "cl_cookies"}

\* the release of caller c pools its page in this step
Pools(c) ==
    /\ pc[c] \in CleanupLabels
    /\ pc'[c] \notin CleanupLabels \cup {"rp_close", "rp_close2"}
    /\ available_pages'[PoolOf(St, c)]
         = Append(available_pages[PoolOf(St, c)], arg[c].p)

\* the pages of the pool of caller c, the one being released included
TotalPages(c) ==
    Len(available_pages[PoolOf(St, c)])
      + Cardinality(in_use_pages[PoolOf(St, c)]) + 1

C31_ClosesAboveLowWater ==
    [][\A c \in Procs :
         mode = "pages" /\ Pools(c) =>
           \/ Len(available_pages[PoolOf(St, c)]) + 1 <= min_size
           \/ TotalPages(c) <= min_size]_vars

\* C31, amended: return_page closes a cleaned page only when available_pages
\* already holds max_size pages, and min_size plays no part; since
\* |available_pages| + |in_use_pages| <= max_size, the page of a release that
\* gets as far as the cleanup always finds fewer than max_size pages
\* available: it is appended to available_pages and no release ever closes a
\* page.
C31_ReleaseAlwaysPools ==
    /\ [](/\ \A c \in Procs : pc[c] \notin {"rp_close", "rp_close2"}
          /\ closed_pages = {}
          /\ \A c \in Procs :
               pc[c] \in CleanupLabels =>
                 Len(available_pages[PoolOf(St, c)]) < max_size)
    /\ [][\A c \in Procs :
            pc[c] \in CleanupLabels /\ pc'[c] \notin CleanupLabels
            => Pools(c)]_vars

\* a second page has been released into a pool that already had min_size
\* pages available, and it was pooled
C31_Witness ==
    /\ mode = "pages"
    /\ ~misuse
    /\ pages_created[StandalonePool] = 2
    /\ Len(available_pages[StandalonePool]) = 2
    /\ closed_pages = {}
    /\ \E c \in Procs :
         /\ last[c].op = "return_page" /\ last[c].ex = NoExc
         /\ last[c].p = available_pages[StandalonePool][2]

====
